---------------------------- MODULE Spec2Model ----------------------------
(***************************************************************************)
(* Model of the innovation-assessment utilities                            *)
(* (src/src/utility/functions.py, src/src/utility/visualize.py).           *)
(*                                                                         *)
(* The functions are pure; the state is the last call a session made and   *)
(* what it returned.                                                       *)
(*                                                                         *)
(* Numbers.  A quality is a float in the code.  Here a quality is an       *)
(* integer k standing for the dyadic rational k / QDen, which a float      *)
(* holds exactly.  A novelty 0.5 * (q +- sqrt(q^2 + 4)) is kept exactly as *)
(* a quadratic surd (a + b * sqrt(S)) / den, and round(x, precision) is    *)
(* computed exactly (round half to even, what Python and numpy do on an    *)
(* exactly represented value).  A rounded value is an integer counting     *)
(* units of 10^-precision.  The exact tests need integers beyond 32 bits,  *)
(* so they are made on limb sequences (the N... and Z... operators).       *)
(***************************************************************************)
EXTENDS Integers, Sequences, FiniteSets, TLC

-----------------------------------------------------------------------------
(* Bounds of the model.                                                    *)

\* a quality is k / 2^QBits
QBits == 11
\* the qualities tried run over multiples of 2^-QCoarseBits ...
QCoarseBits == 1
\* ... from -QMaxInput to QMaxInput (the domain is [-6, 6]) ...
QMaxInput == 7
\* ... and, next to 0 and to the domain's ends, offsets of up to TinyMax / 2^QBits
TinyMax == 2
\* the precisions tried are 0 .. MaxPrecision
MaxPrecision == 3
\* rescale_values is tried on up to MaxLen raw values of 0 .. MaxRaw ...
MaxLen == 3
MaxRaw == 3
\* ... and on up to LongLen raw values 0 or 1
LongLen == 11
\* calculate_results is tried on up to MaxFeatures columns of any kind ...
MaxFeatures == 2
\* ... and on up to MaxValidFeatures columns that calculate_area accepts
MaxValidFeatures == 3
\* features added to a row that already has a feature in every quadrant
MaxExtraFeatures == 1

QDen == 2 ^ QBits

-----------------------------------------------------------------------------
(* Naturals beyond 32 bits: little-endian sequences of limbs, no leading   *)
(* zero limb, <<>> is 0.                                                   *)

Base == 10 ^ 4

RECURSIVE NOf(_)
NOf(n) == IF n = 0 THEN <<>> ELSE <<n % Base>> \o NOf(n \div Base)

RECURSIVE NAddC(_, _, _)
NAddC(x, y, c) ==
    IF x = <<>> /\ y = <<>>
    THEN (IF c = 0 THEN <<>> ELSE <<c>>)
    ELSE LET s == (IF x = <<>> THEN 0 ELSE Head(x))
                  + (IF y = <<>> THEN 0 ELSE Head(y)) + c
         IN  <<s % Base>> \o NAddC(IF x = <<>> THEN <<>> ELSE Tail(x),
                                   IF y = <<>> THEN <<>> ELSE Tail(y),
                                   s \div Base)

NAdd(x, y) == NAddC(x, y, 0)

RECURSIVE NTrim(_)
NTrim(x) ==
    IF x = <<>> THEN <<>>
    ELSE IF x[Len(x)] = 0 THEN NTrim(SubSeq(x, 1, Len(x) - 1)) ELSE x

\* x - y for x >= y
RECURSIVE NSubB(_, _, _)
NSubB(x, y, b) ==
    IF x = <<>> THEN <<>>
    ELSE LET d == Head(x) - (IF y = <<>> THEN 0 ELSE Head(y)) - b
         IN  <<IF d < 0 THEN d + Base ELSE d>>
             \o NSubB(Tail(x), IF y = <<>> THEN <<>> ELSE Tail(y),
                      IF d < 0 THEN 1 ELSE 0)

NSub(x, y) == NTrim(NSubB(x, y, 0))

\* -1, 0, 1 as x < y, x = y, x > y
RECURSIVE NCmpFrom(_, _, _)
NCmpFrom(x, y, i) ==
    IF i = 0 THEN 0
    ELSE IF x[i] < y[i] THEN -1
    ELSE IF x[i] > y[i] THEN 1
    ELSE NCmpFrom(x, y, i - 1)

NCmp(x, y) ==
    IF Len(x) < Len(y) THEN -1
    ELSE IF Len(x) > Len(y) THEN 1
    ELSE NCmpFrom(x, y, Len(x))

RECURSIVE NMulLimb(_, _, _)
NMulLimb(x, d, c) ==
    IF x = <<>> THEN NOf(c)
    ELSE LET p == Head(x) * d + c
         IN  <<p % Base>> \o NMulLimb(Tail(x), d, p \div Base)

RECURSIVE NMul(_, _)
NMul(x, y) ==
    IF x = <<>> \/ y = <<>> THEN <<>>
    ELSE LET rest == NMul(Tail(x), y)
         IN  NAdd(NTrim(NMulLimb(y, Head(x), 0)),
                  IF rest = <<>> THEN <<>> ELSE <<0>> \o rest)

(* Signed integers: sg in {-1, 0, 1} and the magnitude mg.                 *)

Sgn(i) == IF i > 0 THEN 1 ELSE IF i < 0 THEN -1 ELSE 0

Abs(i) == IF i < 0 THEN -i ELSE i

ZOf(i) == [sg |-> Sgn(i), mg |-> NOf(Abs(i))]

ZNeg(x) == [sg |-> -x.sg, mg |-> x.mg]

ZMul(x, y) == [sg |-> x.sg * y.sg, mg |-> NMul(x.mg, y.mg)]

ZAdd(x, y) ==
    IF x.sg = 0 THEN y
    ELSE IF y.sg = 0 THEN x
    ELSE IF x.sg = y.sg THEN [sg |-> x.sg, mg |-> NAdd(x.mg, y.mg)]
    ELSE LET c == NCmp(x.mg, y.mg)
         IN  IF c = 0 THEN [sg |-> 0, mg |-> <<>>]
             ELSE IF c > 0 THEN [sg |-> x.sg, mg |-> NSub(x.mg, y.mg)]
             ELSE [sg |-> y.sg, mg |-> NSub(y.mg, x.mg)]

ZSub(x, y) == ZAdd(x, ZNeg(y))

\* -1, 0, 1 as x < y, x = y, x > y
ZCmp(x, y) == ZSub(x, y).sg

-----------------------------------------------------------------------------
(* Quadratic surds: [a, b, S, den] is (a + b * sqrt(S)) / den, den > 0.    *)

Surd(a, b, S, den) == [a |-> a, b |-> b, S |-> S, den |-> den]

\* the sign of a + b * sqrt(S)
SurdSign(x) ==
    IF x.b = 0 \/ x.S = 0 THEN Sgn(x.a)
    ELSE IF x.a = 0 \/ Sgn(x.a) = Sgn(x.b) THEN Sgn(x.b)
    ELSE LET c == ZCmp(ZMul(ZOf(x.a), ZOf(x.a)),
                       ZMul(ZMul(ZOf(x.b), ZOf(x.b)), ZOf(x.S)))
         IN  IF c > 0 THEN Sgn(x.a) ELSE IF c < 0 THEN Sgn(x.b) ELSE 0

\* x * (k / d) for integers k and d > 0
SurdMulRat(x, k, d) == Surd(x.a * k, x.b * k, x.S, x.den * d)

SurdAbs(x) ==
    IF SurdSign(x) < 0 THEN Surd(-x.a, -x.b, x.S, x.den) ELSE x

Pow10(p) == 10 ^ p

\* floor(sqrt(n)) for 0 <= n < 2^31
RECURSIVE ISqrtIn(_, _, _)
ISqrtIn(n, lo, hi) ==
    IF hi = lo + 1 THEN lo
    ELSE LET mid == (lo + hi) \div 2
         IN  IF mid * mid <= n THEN ISqrtIn(n, mid, hi) ELSE ISqrtIn(n, lo, mid)

ISqrt(n) == ISqrtIn(n, 0, 46341)

\* floor(n * 10^p / den) for n >= 0, one decimal digit at a time
RECURSIVE FloorScaled(_, _, _, _)
FloorScaled(quo, rem, den, p) ==
    IF p = 0 THEN quo
    ELSE FloorScaled(10 * quo + (10 * rem) \div den, (10 * rem) % den, den, p - 1)

(* 10^p * x against the halves.  With v = 10^p * (a + b * sqrt(S)) / den,  *)
(* HalfCmp(x, p, m) is -1, 0 or 1 as m - 1/2 is below, at or above v: the  *)
(* sign of  (2m - 1) * den - 2 * 10^p * a  -  2 * 10^p * b * sqrt(S).      *)
Halves(x, p) ==
    LET P2 == ZMul(ZOf(2), ZOf(Pow10(p)))
        B2 == ZMul(P2, ZOf(x.b))
    IN  [A2 |-> ZMul(P2, ZOf(x.a)), bsg |-> B2.sg,
         Y2 |-> ZMul(ZMul(B2, B2), ZOf(x.S)), den |-> ZOf(x.den)]

HalfCmpIn(h, m) ==
    LET xm == ZSub(ZMul(ZOf(2 * m - 1), h.den), h.A2)
        c  == ZCmp(ZMul(xm, xm), h.Y2)
    IN  IF h.Y2.sg = 0 THEN xm.sg
        ELSE IF h.bsg > 0
             THEN (IF xm.sg <= 0 THEN -1 ELSE c)
             ELSE (IF xm.sg >= 0 THEN 1 ELSE -c)

HalfCmp(x, p, m) == HalfCmpIn(Halves(x, p), m)

(* round(x, p) for x >= 0, in units of 10^-p: the integer nearest to v,    *)
(* the even one of the two when v lies halfway.  It is the largest m with  *)
(* m - 1/2 <= v, searched upwards from floor(v'), v' <= v being v with     *)
(* sqrt(S) replaced by an integer next to it.                              *)
RoundMag(x, p) ==
    LET h     == Halves(x, p)
        r     == ISqrt(x.S)
        below == x.a + x.b * (IF x.b >= 0 THEN r ELSE r + 1)
        start == IF below <= 0 THEN 0
                 ELSE FloorScaled(below \div x.den, below % x.den, x.den, p)
        RECURSIVE Upwards(_)
        Upwards(m) == IF HalfCmpIn(h, m + 1) <= 0 THEN Upwards(m + 1) ELSE m
        m == Upwards(start)
    IN  IF HalfCmpIn(h, m) = 0 /\ m % 2 = 1 THEN m - 1 ELSE m

\* round(x, p), in units of 10^-p
Round(x, p) ==
    LET s == SurdSign(x)
    IN  IF s = 0 THEN 0 ELSE s * RoundMag(SurdAbs(x), p)

-----------------------------------------------------------------------------
(* calculate_area, functions.py:5-34                                       *)

Attributes == {"LQ", "MB", "A"}

\* the domain's end: a quality is accepted when -6 <= q <= 6
QLimit == 6

\* the default of calculate_area's precision, also the 3 of round(quality, 3)
DefaultPrecision == 3

InRange_Wide(q) == -QMaxInput * QDen <= q /\ q <= QMaxInput * QDen

InRange(q) == -QLimit * QDen <= q /\ q <= QLimit * QDen

\* sqrt(q**2 + 4) is sqrt(q^2 + 4 * QDen^2) / QDen for the quality q / QDen
Radicand_NoOffset(q) == q * q

Radicand(q) == q * q + 4 * QDen * QDen

\* the novelty before it is rounded (lines 25-30)
Novelty_SignSlip(q, attr) ==
    IF attr = "LQ" THEN Surd(q, 0, 0, QDen)
    ELSE IF attr = "MB" THEN Surd(q, 1, Radicand(q), 2 * QDen)
    ELSE Surd(q, -1, Radicand(q), 2 * QDen)

Novelty(q, attr) ==
    IF attr = "LQ" THEN Surd(q, 0, 0, QDen)
    ELSE IF attr = "MB" THEN Surd(q, -1, Radicand(q), 2 * QDen)
    ELSE Surd(q, 1, Radicand(q), 2 * QDen)

\* round(abs(n * q), precision) (line 32): n is the novelty before rounding
Area_FromRounded(n, q, precision) ==
    Round(SurdAbs(Surd(Round(n, precision) * q, 0, 0,
                       Pow10(precision) * QDen)), precision)

Area(n, q, precision) == Round(SurdAbs(SurdMulRat(n, q, QDen)), precision)

ValueError(msg) == [kind |-> "ValueError", msg |-> msg]

\* line 34: round(n, precision), round(area, precision); the area is a
\* multiple of 10^-precision already, which the second round leaves as it is
calculate_area_Clamping(q, attr, precision) ==
    IF attr \notin Attributes THEN ValueError("Invalid attribute")
    ELSE LET qc == IF q > QLimit * QDen THEN QLimit * QDen
                   ELSE IF q < -QLimit * QDen THEN -QLimit * QDen ELSE q
             n  == Novelty(qc, attr)
         IN  [kind |-> "ok", novelty |-> Round(n, precision),
              area |-> Area(n, qc, precision)]

calculate_area(q, attr, precision) ==
    IF attr \notin Attributes THEN ValueError("Invalid attribute")
    ELSE IF ~InRange(q) THEN ValueError("Quality value out of range")
    ELSE LET n == Novelty(q, attr)
         IN  [kind |-> "ok", novelty |-> Round(n, precision),
              area |-> Area(n, q, precision)]

-----------------------------------------------------------------------------
(* rescale_values, functions.py:37-67                                      *)
(*                                                                         *)
(* The raw values are integers.  With n = len(values), the deviation       *)
(* x - mean is Dev / n and std is sqrt(SumSqDev / n^3), both exact, so     *)
(* 2 * (x - mean) / std = 2 * Dev * sqrt(n) / sqrt(SumSqDev).  A rescaled  *)
(* value z is kept as its sign and its square, a fraction in lowest terms: *)
(* z = sg * sqrt(num / den); nan is the float NaN.                         *)

RECURSIVE Gcd(_, _)
Gcd(x, y) == IF y = 0 THEN x ELSE Gcd(y, x % y)

Real(sg, num, den) ==
    IF sg = 0 \/ num = 0 THEN [nan |-> FALSE, sg |-> 0, num |-> 0, den |-> 1]
    ELSE LET g == Gcd(num, den)
         IN  [nan |-> FALSE, sg |-> sg, num |-> num \div g, den |-> den \div g]

NaN == [nan |-> TRUE, sg |-> 0, num |-> 0, den |-> 1]

\* x <= y for two values that are not NaN
RealLeq(x, y) ==
    IF x.sg < y.sg THEN TRUE
    ELSE IF x.sg > y.sg THEN FALSE
    ELSE IF x.sg = 0 THEN TRUE
    ELSE IF x.sg > 0 THEN x.num * y.den <= y.num * x.den
    ELSE x.num * y.den >= y.num * x.den

\* -x; the negation of NaN is NaN
RealNeg(x) == [x EXCEPT !.sg = -x.sg]

RECURSIVE SeqSum(_)
SeqSum(xs) == IF xs = <<>> THEN 0 ELSE Head(xs) + SeqSum(Tail(xs))

\* the bound of np.clip, line 62
ClipLimit == 6

\* line 59, 2 * (x - mean) / std, from dev = n * (x - mean) and
\* ssq = n^3 * std^2; 0 / 0 is NaN
Normalized(dev, ssq, n) ==
    IF ssq = 0 THEN NaN
    ELSE Real(Sgn(dev), 4 * dev * dev * n, ssq)

\* np.clip(z, -6, 6), line 62: NaN stays NaN
Clip_None(z) == z

Clip(z) ==
    IF z.nan THEN z
    ELSE IF z.num > ClipLimit * ClipLimit * z.den THEN Real(z.sg, ClipLimit * ClipLimit, 1)
    ELSE z

\* lines 64-65
Inverse_Ignored(z, inversed) == z

Inverse(z, inversed) == IF inversed THEN RealNeg(z) ELSE z

\* no input makes the code raise: an empty input gives an empty array
\* (np.mean and np.std of nothing are NaN, with a warning)
rescale_values(values, inversed) ==
    LET n     == Len(values)
        total == SeqSum(values)
        \* n * (values - mean), lines 55 and 59
        dev   == [i \in 1 .. n |-> n * values[i] - total]
        \* n^3 * std^2, line 56: np.std divides by n
        ssq   == SeqSum([i \in 1 .. n |-> dev[i] * dev[i]])
    IN  [kind |-> "ok",
         values |-> [i \in 1 .. n |->
                        Inverse(Clip(Normalized(dev[i], ssq, n)), inversed)]]

-----------------------------------------------------------------------------
(* calculate_results, functions.py:70-128                                  *)
(*                                                                         *)
(* product_no is [type, val]; df_value is [columns, rows], a column label  *)
(* being the sequence of its parts between '_'; df_attr maps a feature     *)
(* name to the column of the attributes table, whose first entry is the    *)
(* attribute.                                                              *)

TypeError(msg) == [kind |-> "TypeError", msg |-> msg]

\* col.split('_')[0], line 102
FeatureName(col) == Head(col)

\* round(quality, 3), line 109, in units of 10^-3
RoundedQuality(quality) == Round(Surd(quality, 0, 0, QDen), DefaultPrecision)

\* lines 113-122: the quality compared is the one read from the table, not
\* the rounded one that is stored
Quarter_NonStrict(quality, novelty) ==
    IF quality >= 0
    THEN (IF novelty >= 0 THEN "Q1" ELSE "Q2")
    ELSE (IF novelty >= 0 THEN "Q4" ELSE "Q3")

Quarter(quality, novelty) ==
    IF quality > 0
    THEN (IF novelty > 0 THEN "Q1" ELSE "Q2")
    ELSE (IF novelty > 0 THEN "Q4" ELSE "Q3")

\* the loop of lines 101-124 from column i on; table holds the rows so far
RECURSIVE ResultRows_Skipping(_, _, _, _, _)
ResultRows_Skipping(columns, product, df_attr, i, table) ==
    IF i > Len(columns) THEN [kind |-> "ok", table |-> table]
    ELSE LET feature_name == FeatureName(columns[i])
         IN  IF feature_name \notin DOMAIN df_attr
             THEN ValueError("Feature not found in the attributes file")
             ELSE LET quality   == product[i]
                      attribute == df_attr[feature_name][1]
                      r == calculate_area(quality, attribute, DefaultPrecision)
                  IN  ResultRows_Skipping(columns, product, df_attr, i + 1,
                          IF r.kind # "ok" THEN table
                          ELSE Append(table,
                                      [feature_name |-> feature_name,
                                       attribute |-> attribute,
                                       quality |-> RoundedQuality(quality),
                                       novelty |-> r.novelty,
                                       area |-> r.area,
                                       quarter |-> Quarter(quality, r.novelty)]))

RECURSIVE ResultRows(_, _, _, _, _)
ResultRows(columns, product, df_attr, i, table) ==
    IF i > Len(columns) THEN [kind |-> "ok", table |-> table]
    ELSE LET feature_name == FeatureName(columns[i])
         IN  IF feature_name \notin DOMAIN df_attr
             THEN ValueError("Feature not found in the attributes file")
             ELSE LET quality   == product[i]
                      attribute == df_attr[feature_name][1]
                      r == calculate_area(quality, attribute, DefaultPrecision)
                  IN  IF r.kind # "ok" THEN r
                      ELSE ResultRows(columns, product, df_attr, i + 1,
                               Append(table,
                                      [feature_name |-> feature_name,
                                       attribute |-> attribute,
                                       quality |-> RoundedQuality(quality),
                                       novelty |-> r.novelty,
                                       area |-> r.area,
                                       quarter |-> Quarter(quality, r.novelty)]))

calculate_results(product_no, df_value, df_attr) ==
    IF product_no.type # "int"
    THEN TypeError("Product number must be an integer")
    ELSE IF product_no.val \notin 0 .. (Len(df_value.rows) - 1)
    THEN ValueError("Product number out of range")
    ELSE ResultRows(df_value.columns, df_value.rows[product_no.val + 1],
                    df_attr, 1, <<>>)

-----------------------------------------------------------------------------
(* print_results, utility/visualize.py:172-201 (the same lines as          *)
(* visualization/visualize.py:137-166).  The table and the plot that come  *)
(* first (lines 166-170) are output only.                                  *)

Quadrants == <<"Q1", "Q2", "Q3", "Q4">>

\* data[data['quarter'] == q], lines 173-176
QuadrantRows(data, q) == SelectSeq(data, LAMBDA r : r.quarter = q)

\* quadrant[quadrant['area'] == quadrant['area'].max()], lines 179-182;
\* the max of no areas is NaN, which no area equals
MaxAreaRows_Last(quadrant) ==
    LET hit == SelectSeq(quadrant,
                   LAMBDA r : \A i \in 1 .. Len(quadrant) : quadrant[i].area <= r.area)
    IN  IF hit = <<>> THEN hit ELSE <<hit[Len(hit)]>>

MaxAreaRows(quadrant) ==
    SelectSeq(quadrant,
              LAMBDA r : \A i \in 1 .. Len(quadrant) : quadrant[i].area <= r.area)

FeatureNamesOf(rows) == [i \in 1 .. Len(rows) |-> rows[i].feature_name]

\* the prints of lines 185-201 from quadrant i on: .values[0] of no rows is
\* an IndexError, raised before the print it belongs to writes anything
RECURSIVE PrintQuadrants(_, _, _)
PrintQuadrants(data, i, printed) ==
    IF i > Len(Quadrants) THEN [kind |-> "ok", printed |-> printed]
    ELSE LET quadrant == QuadrantRows(data, Quadrants[i])
             max_area == MaxAreaRows(quadrant)
         IN  IF max_area = <<>>
             THEN [kind |-> "IndexError", printed |-> printed]
             ELSE PrintQuadrants(data, i + 1,
                      Append(printed,
                             [quarter |-> Quadrants[i],
                              feature_name |-> max_area[1].feature_name,
                              quality |-> max_area[1].quality,
                              features |-> FeatureNamesOf(quadrant)]))

print_results(data) == PrintQuadrants(data, 1, <<>>)

-----------------------------------------------------------------------------
(* The inputs tried.                                                       *)

CoarseStep == 2 ^ (QBits - QCoarseBits)

Tiny == (-TinyMax) .. TinyMax

AreaQualities ==
    { h * CoarseStep : h \in (-QMaxInput * 2 ^ QCoarseBits) .. (QMaxInput * 2 ^ QCoarseBits) }
    \cup { z * QDen + t : z \in {-QLimit, 0, QLimit}, t \in Tiny }

\* "NA" is what the attributes file holds for ProductID and Name
AttributeInputs == Attributes \cup {"NA"}

Precisions == 0 .. MaxPrecision

\* the features of the bicycle data, data/make_dataset.py:47-56
FeatureNames ==
    <<"Weight", "AeroEff", "WheelSize", "FrameSize", "GearCount",
      "MaxSpeed", "BrakeEff", "Comfort", "Durability", "RideSmooth">>

ColumnLabel(i) ==
    IF i % 2 = 1 THEN <<FeatureNames[i], "rescaled">> ELSE <<FeatureNames[i]>>

\* an attribute, or none when the attributes file has no such feature
Absent == "absent"

\* a cell is a column's quality and its feature's attribute
Cells(qualities, attrs) == [quality : qualities, attr : attrs]

RECURSIVE SeqsUpTo(_, _)
SeqsUpTo(S, n) ==
    IF n = 0 THEN {<<>>}
    ELSE LET shorter == SeqsUpTo(S, n - 1)
         IN  shorter \cup { Append(xs, x) : xs \in { ys \in shorter : Len(ys) = n - 1 }, x \in S }

\* the product rows tried: every row of up to MaxFeatures cells over
\* TableQualities and every attribute, "NA" and none included, and every row
\* of up to MaxValidFeatures cells that calculate_area accepts over -2 and 2
TableQualities ==
    {-QLimit * QDen - 1, -2 * QDen, 0, 1, QLimit * QDen}

ValidQualities == {-2 * QDen, 2 * QDen}

\* a row with a feature in each of Q1, Q2, Q3, Q4
FourQuadrants ==
    << [quality |-> 2 * QDen, attr |-> "A"], [quality |-> 2 * QDen, attr |-> "MB"],
       [quality |-> -2 * QDen, attr |-> "LQ"], [quality |-> -2 * QDen, attr |-> "A"] >>

\* such a row with up to MaxExtraFeatures more features, which share a
\* quadrant, and possibly an area, with one of the four
FullInputs ==
    { FourQuadrants \o more :
          more \in SeqsUpTo(Cells(ValidQualities, Attributes), MaxExtraFeatures) }

\* the rows of one feature, over every quality of AreaQualities that
\* calculate_area accepts
SingleInputs ==
    { << c >> : c \in Cells({ q \in AreaQualities : InRange(q) }, Attributes) }

ProductInputs ==
    SeqsUpTo(Cells(TableQualities, AttributeInputs \cup {Absent}), MaxFeatures)
    \cup SeqsUpTo(Cells(ValidQualities, Attributes), MaxValidFeatures)
    \cup FullInputs
    \cup SingleInputs

DfValue(cells) ==
    [columns |-> [i \in 1 .. Len(cells) |-> ColumnLabel(i)],
     rows |-> << [i \in 1 .. Len(cells) |-> cells[i].quality] >>]

DfAttr(cells) ==
    LET present == { i \in 1 .. Len(cells) : cells[i].attr # Absent }
    IN  [name \in { FeatureNames[i] : i \in present } |->
            << cells[CHOOSE i \in present : FeatureNames[i] = name].attr >>]

ProductNoInputs ==
    { [type |-> "int", val |-> v] : v \in {-1, 0, 1} }
    \cup { [type |-> "float", val |-> 0] }

\* raw measurements: every sequence of up to MaxLen values of 0 .. MaxRaw, and
\* every sequence of up to LongLen values 0 or 1 (a value further than three
\* standard deviations from the mean needs eleven values)
RescaleInputs == SeqsUpTo(0 .. MaxRaw, MaxLen) \cup SeqsUpTo({0, 1}, LongLen)

-----------------------------------------------------------------------------
VARIABLES areaCall, rescaleCall, resultsCall, printCall

vars == <<areaCall, rescaleCall, resultsCall, printCall>>

NoCall == [op |-> "none"]

Idle ==
    /\ areaCall = NoCall
    /\ rescaleCall = NoCall
    /\ resultsCall = NoCall
    /\ printCall = NoCall

Init == Idle

CallCalculateArea ==
    /\ Idle
    /\ \E q \in AreaQualities, attr \in AttributeInputs, precision \in Precisions :
           areaCall' = [op |-> "calculate_area", q |-> q, attr |-> attr,
                        precision |-> precision,
                        ret |-> calculate_area(q, attr, precision)]
    /\ UNCHANGED <<rescaleCall, resultsCall, printCall>>

\* rescale_values(values, inversed); ret maps each flag tried to what came back
CallRescaleValues ==
    /\ Idle
    /\ \E values \in RescaleInputs, inversed \in BOOLEAN :
           rescaleCall' = [op |-> "rescale_values", values |-> values,
                           ret |-> (inversed :> rescale_values(values, inversed))]
    /\ UNCHANGED <<areaCall, resultsCall, printCall>>

\* the same values again, with the other flag
CallRescaleValuesAgain ==
    /\ rescaleCall.op = "rescale_values"
    /\ \E inversed \in BOOLEAN \ DOMAIN rescaleCall.ret :
           rescaleCall' = [rescaleCall EXCEPT !.ret =
               @ @@ (inversed :> rescale_values(rescaleCall.values, inversed))]
    /\ UNCHANGED <<areaCall, resultsCall, printCall>>

\* calculate_results on a one-product table; a product number other than 0
\* is tried on tables of at most one column
CallCalculateResults ==
    /\ Idle
    /\ \E product_no \in ProductNoInputs, cells \in ProductInputs :
         /\ Len(cells) <= 1 \/ product_no = [type |-> "int", val |-> 0]
         /\ resultsCall' = [op |-> "calculate_results", product_no |-> product_no,
                             df_value |-> DfValue(cells), df_attr |-> DfAttr(cells),
                             ret |-> calculate_results(product_no, DfValue(cells),
                                                       DfAttr(cells))]
    /\ UNCHANGED <<areaCall, rescaleCall, printCall>>

\* print_results on the table calculate_results returned
CallPrintResults ==
    /\ resultsCall.op = "calculate_results"
    /\ resultsCall.ret.kind = "ok"
    /\ printCall = NoCall
    /\ printCall' = [op |-> "print_results",
                     ret |-> print_results(resultsCall.ret.table)]
    /\ UNCHANGED <<areaCall, rescaleCall, resultsCall>>

Next ==
    \/ CallCalculateArea
    \/ CallRescaleValues
    \/ CallRescaleValuesAgain
    \/ CallCalculateResults
    \/ CallPrintResults

Spec == Init /\ [][Next]_vars

\* one function at a time
SpecArea == Init /\ [][CallCalculateArea]_vars

SpecRescale == Init /\ [][CallRescaleValues \/ CallRescaleValuesAgain]_vars

SpecResults == Init /\ [][CallCalculateResults \/ CallPrintResults]_vars

-----------------------------------------------------------------------------
(* The claims.                                                             *)

\* round half to even of num / den, on integers
HalfEven(num, den) ==
    LET f == num \div den
        r == num % den
    IN  IF 2 * r < den THEN f
        ELSE IF 2 * r > den THEN f + 1
        ELSE IF f % 2 = 0 THEN f ELSE f + 1

\* m is an integer nearest to 10^p * x, for x >= 0
NearestTo(m, x, p) == HalfCmp(x, p, m) <= 0 /\ HalfCmp(x, p, m + 1) >= 0

AreaReturned == areaCall.op = "calculate_area" /\ areaCall.ret.kind = "ok"

\* C1: for every quality in [-6, 6] calculate_area returns, with a novelty
\* <= 0 for 'MB', >= 0 for 'A' and equal to round(q, precision) for 'LQ'.
C1_NoveltyByCategory ==
    areaCall.op = "calculate_area" =>
        LET c == areaCall
        IN  /\ (c.attr \in {"LQ", "MB", "A"} /\ -6 * QDen <= c.q /\ c.q <= 6 * QDen)
                  => c.ret.kind = "ok"
            /\ c.ret.kind = "ok" =>
                  /\ c.attr = "MB" => c.ret.novelty <= 0
                  /\ c.attr = "A" => c.ret.novelty >= 0
                  /\ c.attr = "LQ" =>
                        c.ret.novelty = HalfEven(c.q * Pow10(c.precision), QDen)

\* a must-be novelty that rounds to 0, the end of its range
C1_Witness ==
    AreaReturned /\ areaCall.attr = "MB" /\ areaCall.q > 0 /\ areaCall.ret.novelty = 0

\* C2 as stated: the area is round(|novelty * q|, precision) with the novelty
\* the call returns, which is rounded, and it is >= 0.  (When that product lies
\* halfway between two roundings, either is taken to satisfy the claim.)
C2_AreaFromRoundedNovelty ==
    AreaReturned =>
        LET c == areaCall
        IN  /\ c.ret.area >= 0
            /\ NearestTo(c.ret.area,
                         SurdAbs(Surd(c.ret.novelty * c.q, 0, 0,
                                      Pow10(c.precision) * QDen)),
                         c.precision)

\* C2, amended: the area is round(|n * q|, precision) with n the novelty
\* before it is rounded, and it is >= 0.
C2_AreaFromExactNovelty ==
    AreaReturned =>
        LET c == areaCall
        IN  /\ c.ret.area >= 0
            /\ NearestTo(c.ret.area,
                         SurdAbs(SurdMulRat(Novelty(c.q, c.attr), c.q, QDen)),
                         c.precision)

\* an area that the rounded novelty would not give
C2_Witness ==
    /\ AreaReturned
    /\ areaCall.attr # "LQ"
    /\ areaCall.ret.area > 0
    /\ ~NearestTo(areaCall.ret.area,
                  SurdAbs(Surd(areaCall.ret.novelty * areaCall.q, 0, 0,
                               Pow10(areaCall.precision) * QDen)),
                  areaCall.precision)

\* C3 as stated: the novelty returned lies in [-6, 6].
C3_NoveltyWithinSix ==
    AreaReturned =>
        /\ -6 * Pow10(areaCall.precision) <= areaCall.ret.novelty
        /\ areaCall.ret.novelty <= 6 * Pow10(areaCall.precision)

\* C3, amended: the novelty returned lies in [-6, 6] for 'LQ', in [-6.2, 0]
\* for 'MB' and in [0, 6.2] for 'A', at every precision >= 0.
C3_NoveltyWithinAmendedRange ==
    AreaReturned =>
        LET n == areaCall.ret.novelty
            P == Pow10(areaCall.precision)
        IN  /\ areaCall.attr = "LQ" => (-6 * P <= n /\ n <= 6 * P)
            /\ areaCall.attr = "MB" => (-62 * P <= 10 * n /\ n <= 0)
            /\ areaCall.attr = "A" => (0 <= n /\ 10 * n <= 62 * P)

\* an attractiveness novelty above 6
C3_Witness ==
    /\ AreaReturned
    /\ areaCall.attr = "A"
    /\ areaCall.ret.novelty > 6 * Pow10(areaCall.precision)

\* C4: calculate_area returns no pair for an invalid input: an attribute
\* outside {LQ, MB, A} is an invalid-attribute error, and a quality outside
\* [-6, 6] (with a valid attribute) an out-of-range error, never a clamped value.
C4_InvalidInputRejected ==
    areaCall.op = "calculate_area" =>
        LET c == areaCall
            badAttr  == c.attr \notin {"LQ", "MB", "A"}
            badRange == c.q < -6 * QDen \/ c.q > 6 * QDen
        IN  /\ badAttr => c.ret = [kind |-> "ValueError", msg |-> "Invalid attribute"]
            /\ (~badAttr /\ badRange) =>
                  c.ret = [kind |-> "ValueError", msg |-> "Quality value out of range"]
            /\ (badAttr \/ badRange) => c.ret.kind # "ok"

\* a quality just above 6 is refused
C4_Witness ==
    /\ areaCall.op = "calculate_area"
    /\ areaCall.attr = "LQ"
    /\ areaCall.q = 6 * QDen + 1
    /\ areaCall.ret.kind = "ValueError"

ResultsReturned ==
    resultsCall.op = "calculate_results" /\ resultsCall.ret.kind = "ok"

\* the row of df_value that the call read
ProductRead == resultsCall.df_value.rows[resultsCall.product_no.val + 1]

QuadrantOfSigns(q, n) ==
    CASE q > 0 /\ n > 0 -> "Q1"
      [] q > 0 /\ n <= 0 -> "Q2"
      [] q <= 0 /\ n <= 0 -> "Q3"
      [] q <= 0 /\ n > 0 -> "Q4"

\* C5: the quadrant of a feature with quality q and novelty n is Q1 when q > 0
\* and n > 0, Q2 when q > 0 and n <= 0, Q3 when q <= 0 and n <= 0, Q4 when
\* q <= 0 and n > 0; q is the quality read from the table.
C5_QuadrantBySigns ==
    ResultsReturned =>
        LET table == resultsCall.ret.table
        IN  /\ Len(table) = Len(ProductRead)
            /\ \A i \in 1 .. Len(table) :
                  table[i].quarter = QuadrantOfSigns(ProductRead[i], table[i].novelty)

\* a quality of 0 with a novelty above 0 is Q4
C5_Witness ==
    /\ ResultsReturned
    /\ \E i \in 1 .. Len(resultsCall.ret.table) :
          /\ ProductRead[i] = 0
          /\ resultsCall.ret.table[i].novelty > 0
          /\ resultsCall.ret.table[i].quarter = "Q4"

\* C6 as stated: in every record the quadrant is the one recomputed from the
\* record's own stored quality and stored novelty.
C6_QuadrantFromStoredFields ==
    ResultsReturned =>
        \A i \in 1 .. Len(resultsCall.ret.table) :
            LET r == resultsCall.ret.table[i]
            IN  r.quarter = QuadrantOfSigns(r.quality, r.novelty)

RescaleReturned == rescaleCall.op = "rescale_values"

NonZeroVariance(values) ==
    \E i, j \in 1 .. Len(values) : values[i] # values[j]

\* 2 * (values[i] - mean) / std is beyond 6 in magnitude: with n values,
\* d = n * (values[i] - mean) and ssq the sum of such squares,
\* 4 * d^2 * n > 36 * ssq
BeyondSix(values, i) ==
    LET n   == Len(values)
        d   == n * values[i] - SeqSum(values)
        ssq == SeqSum([j \in 1 .. n |->
                   (n * values[j] - SeqSum(values)) * (n * values[j] - SeqSum(values))])
    IN  4 * d * d * n > 36 * ssq

\* C7: for an input of non-zero variance and either flag, every value that
\* rescale_values returns lies in [-6, 6].
C7_RescaledWithinRange ==
    (RescaleReturned /\ NonZeroVariance(rescaleCall.values)) =>
        \A flag \in DOMAIN rescaleCall.ret :
            LET out == rescaleCall.ret[flag]
            IN  /\ out.kind = "ok"
                /\ \A i \in 1 .. Len(out.values) :
                      /\ ~out.values[i].nan
                      /\ out.values[i].num <= 36 * out.values[i].den

\* a value further than three standard deviations from the mean comes back as 6
\* or -6
C7_Witness ==
    /\ RescaleReturned
    /\ \E flag \in DOMAIN rescaleCall.ret :
          \E i \in 1 .. Len(rescaleCall.values) :
              /\ BeyondSix(rescaleCall.values, i)
              /\ rescaleCall.ret[flag].values[i].num = 36
              /\ rescaleCall.ret[flag].values[i].den = 1

\* C8 as stated: an input of zero variance (a single value included) or an
\* empty input makes rescale_values fail with a domain error.
C8_DegenerateInputRejected ==
    (RescaleReturned /\ ~NonZeroVariance(rescaleCall.values)) =>
        \A flag \in DOMAIN rescaleCall.ret :
            rescaleCall.ret[flag].kind = "DomainError"

\* C9: rescale_values(values, inversed=True) is the element-wise negation of
\* rescale_values(values, inversed=False); both are as long as the input, and
\* position i answers input i (a larger raw value is not rescaled lower).
C9_InverseIsNegation ==
    (RescaleReturned /\ DOMAIN rescaleCall.ret = BOOLEAN) =>
        LET values == rescaleCall.values
            plain  == rescaleCall.ret[FALSE].values
            inv    == rescaleCall.ret[TRUE].values
        IN  /\ Len(plain) = Len(values)
            /\ Len(inv) = Len(values)
            /\ \A i \in 1 .. Len(values) :
                  /\ inv[i].nan = plain[i].nan
                  /\ inv[i].sg = -plain[i].sg
                  /\ inv[i].num = plain[i].num
                  /\ inv[i].den = plain[i].den
            /\ \A i, j \in 1 .. Len(values) :
                  (values[i] <= values[j] /\ ~plain[i].nan /\ ~plain[j].nan)
                      => RealLeq(plain[i], plain[j])

\* both results of an input with values on both sides of the mean
C9_Witness ==
    /\ RescaleReturned
    /\ DOMAIN rescaleCall.ret = BOOLEAN
    /\ \E i, j \in 1 .. Len(rescaleCall.values) :
          /\ rescaleCall.ret[FALSE].values[i].sg = 1
          /\ rescaleCall.ret[TRUE].values[i].sg = -1
          /\ rescaleCall.ret[FALSE].values[j].sg = -1

\* C10 as stated: when a quadrant holds no record, the per-quadrant report of
\* print_results completes without raising.
C10_EmptyQuadrantHandled ==
    (printCall.op = "print_results"
        /\ \E k \in 1 .. Len(Quadrants) :
              QuadrantRows(resultsCall.ret.table, Quadrants[k]) = <<>>)
    => printCall.ret.kind = "ok"

\* the entries print_results wrote, those written before an IndexError included
Printed == printCall.ret.printed

TransformOf(i) ==
    calculate_area(ProductRead[i],
                   resultsCall.df_attr[Head(resultsCall.df_value.columns[i])][1], 3)

\* the same for the columns from i on, in column order; a column whose
\* feature the attributes file lacks has none
RECURSIVE TransformsFrom(_)
TransformsFrom(i) ==
    IF i > Len(resultsCall.df_value.columns) THEN <<>>
    ELSE << IF Head(resultsCall.df_value.columns[i]) \in DOMAIN resultsCall.df_attr
            THEN TransformOf(i)
            ELSE [kind |-> "none"] >> \o TransformsFrom(i + 1)

\* C12: a calculate_results that succeeds returns one record per input
\* feature, in input feature order, whose novelty and area are those of
\* calculate_area on the feature's quality and category; when calculate_area
\* fails for a feature, the failure reaches the caller and no table, not even
\* a partial one, is returned.
C12_OneRecordPerFeatureOrFailure ==
    (/\ resultsCall.op = "calculate_results"
     /\ resultsCall.product_no.type = "int"
     /\ resultsCall.product_no.val \in 0 .. (Len(resultsCall.df_value.rows) - 1))
    => LET columns == resultsCall.df_value.columns
           ret     == resultsCall.ret
           t       == TransformsFrom(1)
           failed  == { i \in 1 .. Len(columns) : t[i].kind = "ValueError" }
       IN  /\ ret.kind = "ok" =>
                 /\ Len(ret.table) = Len(columns)
                 /\ \A i \in 1 .. Len(columns) :
                       /\ ret.table[i].feature_name = Head(columns[i])
                       /\ t[i].kind = "ok"
                       /\ ret.table[i].novelty = t[i].novelty
                       /\ ret.table[i].area = t[i].area
           /\ failed # {} =>
                 /\ ret.kind = "ValueError"
                 /\ DOMAIN ret = {"kind", "msg"}
           /\ (failed # {} /\ \A i \in 1 .. Len(columns) : t[i].kind # "none") =>
                 \E i \in failed :
                     /\ ret = t[i]
                     /\ \A j \in 1 .. (i - 1) : j \notin failed

\* the second feature fails after the first gave a record: nothing is returned
C12_Witness ==
    /\ resultsCall.op = "calculate_results"
    /\ Len(resultsCall.df_value.columns) = 2
    /\ DOMAIN resultsCall.df_attr = {"Weight", "AeroEff"}
    /\ TransformOf(1).kind = "ok"
    /\ TransformOf(2) = [kind |-> "ValueError", msg |-> "Quality value out of range"]
    /\ resultsCall.ret = [kind |-> "ValueError", msg |-> "Quality value out of range"]

\* C13: in a table of calculate_results (precision 3), for every quality in
\* [-6, 6], a must-be feature has a novelty < 0 and is in Q2 or Q3, never in Q1
\* or Q4, and an attractiveness feature has a novelty > 0 and is in Q1 or Q4,
\* never in Q2 or Q3.
C13_CategoryQuadrants ==
    ResultsReturned =>
        \A i \in 1 .. Len(resultsCall.ret.table) :
            LET r == resultsCall.ret.table[i]
            IN  /\ r.attribute = "MB" => (r.novelty < 0 /\ r.quarter \in {"Q2", "Q3"})
                /\ r.attribute = "A" => (r.novelty > 0 /\ r.quarter \in {"Q1", "Q4"})

\* the attractiveness feature of quality -6, where the novelty is least: 0.162
C13_Witness ==
    /\ ResultsReturned
    /\ \E i \in 1 .. Len(resultsCall.ret.table) :
          /\ ProductRead[i] = -6 * QDen
          /\ resultsCall.ret.table[i].attribute = "A"
          /\ resultsCall.ret.table[i].novelty = 162
          /\ resultsCall.ret.table[i].quarter = "Q4"

=============================================================================
